---- MODULE Spec2Model ----
(***************************************************************************)
(* cfgd (src/src/cfgd.c): the configuration applier of mand-metropolisd.   *)
(*                                                                         *)
(* The daemon is one libev loop.  A callback of the loop is either a       *)
(* signal watcher (sig_usr1, sig_usr2, sig_pipe, sig_term) or a delivery   *)
(* of the transport, which calls one renderer (set_ntp_server, set_dns,    *)
(* set_if_addr, set_if_neigh, set_authentication) or set_value.  A         *)
(* renderer is modelled                                                    *)
(* step by step: one step per file open, per file write-and-close and per  *)
(* shell command, so that a signal can arrive between any two of them.     *)
(*                                                                         *)
(* Files hold the bytes the code prints; shell commands are the strings    *)
(* handed to system().  trace is the log of the pass in progress (the      *)
(* calls to fopen, fclose, system, getpwnam it has made, with their        *)
(* outcomes); last is the summary of the pass completed before it.         *)
(***************************************************************************)
EXTENDS Integers, Sequences, FiniteSets, TLC

(* ------------------------------ bounds -------------------------------- *)

\* longest list of servers, search domains, interfaces and keys delivered
MaxList == 2

\* external events (deliveries of a change, deliveries of a signal) in a run
MaxEvents == 2

\* failing outcomes (fopen NULL, asprintf < 0, system() # 0) within one pass
MaxFail == 1

(* ------------------------- strings and lists -------------------------- *)

Digit(d) ==
    CASE d = 0 -> "0" [] d = 1 -> "1" [] d = 2 -> "2" [] d = 3 -> "3"
      [] d = 4 -> "4" [] d = 5 -> "5" [] d = 6 -> "6" [] d = 7 -> "7"
      [] d = 8 -> "8" [] d = 9 -> "9"

\* printf's %d of a non-negative int
RECURSIVE Dec(_)
Dec(n) == IF n < 10 THEN Digit(n) ELSE Dec(n \div 10) \o Digit(n % 10)

\* the contiguous sub-lists of u, the empty one included
Windows(u) == {SubSeq(u, a, b) : a \in 1..(Len(u) + 1), b \in 0..Len(u)}

\* the prefixes of u
Prefixes(u) == {SubSeq(u, 1, b) : b \in 0..Len(u)}

SeqsUpTo(S, n) == UNION {[1..k -> S] : k \in 0..n}

(* ------------------------------ inputs -------------------------------- *)

VERSION == "1.0"

\* static const char _ident[] = "cfgd v" VERSION;
Ident == "cfgd v" \o VERSION

ROOT_HOME == "/home/root"

NtpNames == {"ntp1.example", "ntp2.example"}

\* struct ntp_servers: enabled, count, server[]
NtpArgs == [enabled : {0, 1}, server : SeqsUpTo(NtpNames, MaxList)]

DnsServer(k) == "192.0.2." \o Dec(k)

DnsDomain(k) == "corp" \o Dec(k) \o ".example"

\* two struct string_list: search, servers
DnsArgs ==
    [search : Prefixes([k \in 1..MaxList |-> DnsDomain(k)]),
     servers : Windows([k \in 1..MaxList |-> DnsServer(k)])]

NtpPath == "/etc/systemd/timesyncd.conf"

DnsPath == "/etc/systemd/resolved.conf"

(* ------------------------------- state -------------------------------- *)

VARIABLES
    proc,        \* "running", "exited" (ev_run returned), "killed" (default signal action)
    loop_done,   \* ev_break(EVBREAK_ALL) was requested
    watchers,    \* the signals whose ev_signal watcher is started
    sigpend,     \* signals caught by the loop, their callbacks not yet invoked
    logx_level,  \* "LOG_INFO" or "LOG_DEBUG"
    files,       \* the disk: path -> bytes, for the paths that exist
    cb,          \* the renderer call in progress, or Idle
    trace,       \* what the pass in progress has done so far
    last,        \* the pass completed before the one in progress
    nev,         \* external events so far
    sig          \* the signal the kernel delivered last, or "none"

vars ==
    <<proc, loop_done, watchers, sigpend, logx_level, files, cb, trace, last, nev, sig>>

loopvars == <<proc, loop_done, watchers, sigpend, logx_level>>

Signals == {"SIGUSR1", "SIGUSR2", "SIGPIPE", "SIGHUP", "SIGINT", "SIGTERM"}

TermSignals == {"SIGHUP", "SIGINT", "SIGTERM"}

Idle == [fn |-> "none", arg |-> <<>>, pc |-> "idle", i |-> 0, nfail |-> 0,
         path |-> "", files0 |-> <<>>]

NoPass == [fn |-> "none", arg |-> <<>>, trace |-> <<>>, files |-> <<>>]

Ev(op, what, res) == [op |-> op, what |-> what, res |-> res]

\* the outcomes the environment may give a call that can fail
Outcomes == IF cb.nfail < MaxFail THEN {"ok", "fail"} ELSE {"ok"}

\* the frame after a step with outcome res, at pc
Step(pc, res) ==
    [cb EXCEPT !.pc = pc, !.nfail = IF res = "fail" THEN @ + 1 ELSE @]

\* fopen(path, "w") succeeded: the file exists and is empty
Truncate(disk, path) ==
    [p \in DOMAIN disk \cup {path} |-> IF p = path THEN "" ELSE disk[p]]

\* the file opened with "a": the bytes follow what the file held before the pass
FlushAppend(disk, path, bytes) ==
    [disk EXCEPT ![path] =
        (IF path \in DOMAIN cb.files0 THEN cb.files0[path] ELSE "") \o bytes]

\* the bytes buffered since fopen reach the file at fclose
Flush(disk, path, bytes) == [disk EXCEPT ![path] = bytes]

At(fn, pc) == proc = "running" /\ cb.fn = fn /\ cb.pc = pc

(* --------------------------- set_ntp_server --------------------------- *)

\* for (i = 0; i < count; i++) { fputc(' '); fputs(list[i]); }
RECURSIVE PutList(_, _, _)
PutList(buf, list, i) ==
    IF i > Len(list) THEN buf ELSE PutList(buf \o " " \o list[i], list, i + 1)

NtpConf(servers) ==
    PutList("# AUTOGENERATED BY " \o Ident \o "\n[Time]" \o "\nNTP =",
            servers.server, 1)

\* the early return of line 95 missing
set_ntp_server_fopen_on ==
    /\ At("set_ntp_server", "fopen")
    /\ \E res \in Outcomes :
          /\ trace' = Append(trace, Ev("fopen", NtpPath, res))
          /\ files' = IF res = "ok" THEN Truncate(files, NtpPath) ELSE files
          /\ cb' = Step(IF res = "ok" THEN "write" ELSE "stop", res)
    /\ UNCHANGED <<loopvars, last, nev, sig>>

set_ntp_server_fopen ==
    /\ At("set_ntp_server", "fopen")
    /\ \E res \in Outcomes :
          /\ trace' = Append(trace, Ev("fopen", NtpPath, res))
          /\ files' = IF res = "ok" THEN Truncate(files, NtpPath) ELSE files
          /\ cb' = Step(IF res = "ok" THEN "write" ELSE "ret", res)
    /\ UNCHANGED <<loopvars, last, nev, sig>>

\* line 112 missing: the service is not stopped
set_ntp_server_write_nostop ==
    /\ At("set_ntp_server", "write")
    /\ trace' = Append(trace, Ev("fclose", NtpPath, "ok"))
    /\ files' = Flush(files, NtpPath, NtpConf(cb.arg))
    /\ cb' = Step("set-ntp", "ok")
    /\ UNCHANGED <<loopvars, last, nev, sig>>

set_ntp_server_write ==
    /\ At("set_ntp_server", "write")
    /\ trace' = Append(trace, Ev("fclose", NtpPath, "ok"))
    /\ files' = Flush(files, NtpPath, NtpConf(cb.arg))
    /\ cb' = Step("stop", "ok")
    /\ UNCHANGED <<loopvars, last, nev, sig>>

set_ntp_server_stop ==
    /\ At("set_ntp_server", "stop")
    /\ \E res \in Outcomes :
          /\ trace' = Append(trace, Ev("system", "systemctl stop systemd-timesyncd", res))
          /\ cb' = Step("set-ntp", res)
    /\ UNCHANGED <<loopvars, files, last, nev, sig>>

set_ntp_server_toggle ==
    /\ At("set_ntp_server", "set-ntp")
    /\ \E res \in Outcomes :
          /\ trace' = Append(trace,
                 Ev("system", "timedatectl set-ntp " \o Dec(cb.arg.enabled), res))
          /\ cb' = Step("ret", res)
    /\ UNCHANGED <<loopvars, files, last, nev, sig>>

(* ------------------------------ set_dns ------------------------------- *)

\* the two lists under each other's key
DnsConfSwapped(search, servers) ==
    PutList(PutList("# AUTOGENERATED BY " \o Ident \o "\n[Resolve]" \o "\nDNS =",
                    search, 1) \o "\nDomains =",
            servers, 1)

DnsConf(search, servers) ==
    PutList(PutList("# AUTOGENERATED BY " \o Ident \o "\n[Resolve]" \o "\nDNS =",
                    servers, 1) \o "\nDomains =",
            search, 1)

set_dns_fopen ==
    /\ At("set_dns", "fopen")
    /\ \E res \in Outcomes :
          /\ trace' = Append(trace, Ev("fopen", DnsPath, res))
          /\ files' = IF res = "ok" THEN Truncate(files, DnsPath) ELSE files
          /\ cb' = Step(IF res = "ok" THEN "write" ELSE "ret", res)
    /\ UNCHANGED <<loopvars, last, nev, sig>>

set_dns_write ==
    /\ At("set_dns", "write")
    /\ trace' = Append(trace, Ev("fclose", DnsPath, "ok"))
    /\ files' = Flush(files, DnsPath, DnsConf(cb.arg.search, cb.arg.servers))
    /\ cb' = Step("reload", "ok")
    /\ UNCHANGED <<loopvars, last, nev, sig>>

set_dns_reload ==
    /\ At("set_dns", "reload")
    /\ \E res \in Outcomes :
          /\ trace' = Append(trace,
                 Ev("system", "systemctl reload-or-restart systemd-resolved", res))
          /\ cb' = Step("ret", res)
    /\ UNCHANGED <<loopvars, files, last, nev, sig>>

(* ---------------------- interfaces (inputs) --------------------------- *)

IfName(k) == "eth" \o Dec(k - 1)

\* the k-th address of a family: ip[j].address, ip[j].value (prefix length)
Addr4(k, j) == [address |-> "10." \o Dec(k) \o ".0." \o Dec(j), value |-> "24"]

Addr6(k, j) == [address |-> "fd00:" \o Dec(k) \o "::" \o Dec(j), value |-> "64"]

\* a static neighbour: ip[j].address, ip[j].value (link-layer address)
Neigh4(k, j) ==
    [address |-> "10." \o Dec(k) \o ".1." \o Dec(j),
     value |-> "02:00:00:00:0" \o Dec(k) \o ":0" \o Dec(j)]

Neigh6(k, j) ==
    [address |-> "fd00:" \o Dec(k) \o "::1:" \o Dec(j),
     value |-> "02:00:00:06:0" \o Dec(k) \o ":0" \o Dec(j)]

\* the MTU pairs <<ipv4.mtu, ipv6.mtu>> of the variants: larger first, larger
\* last, equal, one unset
MtuPair(v) ==
    CASE v = 0 -> <<1500, 1492>> [] v = 1 -> <<1492, 1500>>
      [] v = 2 -> <<1500, 1500>> [] OTHER -> <<0, 1492>>

\* struct interface: the k-th interface in variant v.  The variants run every
\* interface through the four forwarding combinations and the MTU pairs.
Iface(k, v) ==
    [name |-> IfName(k),
     dhcp |-> [enabled |-> (v % 2 = 0)],
     ipv4 |-> [mtu |-> MtuPair(v)[1],
               forwarding |-> ((k + v) % 4 \in {1, 2}),
               addr |-> [j \in 1..(k % 3) |-> Addr4(k, j)],
               neigh |-> [j \in 1..(k % 3) |-> Neigh4(k, j)]],
     ipv6 |-> [mtu |-> MtuPair(v)[2],
               forwarding |-> ((k + v) % 4 \in {1, 3}),
               addr |-> [j \in 1..((k + 1) % 3) |-> Addr6(k, j)],
               neigh |-> [j \in 1..((k + 1) % 3) |-> Neigh6(k, j)]]]

\* struct interface_list: count, iface[]
IfLists(v) == {[iface |-> w] : w \in Windows([k \in 1..MaxList |-> Iface(k, v)])}

IfAddrArgs == UNION {IfLists(v) : v \in 0..3}

IfNeighArgs == IfLists(0)

NetPath(name) == "/etc/systemd/network/" \o name \o ".network"

\* the names a file of /etc/systemd/network may carry: the interfaces, and
\* one left behind by an earlier run
NetNames == {IfName(k) : k \in 1..MaxList} \cup {"wlan0"}

\* what the shell expands /etc/systemd/network/*.network to
Glob(disk) == DOMAIN disk \cap {NetPath(n) : n \in NetNames}

(* ----------------------------- set_if_addr ---------------------------- *)

RECURSIVE PutAddrs(_, _, _)
PutAddrs(buf, ip, j) ==
    IF j > Len(ip) THEN buf
    ELSE PutAddrs(buf \o "Address=" \o ip[j].address \o "/" \o ip[j].value \o "\n",
                  ip, j + 1)

\* the MTU of IPv4 taken whatever that of IPv6 is
MTUBytes4(iface) == iface.ipv4.mtu

MTUBytes(iface) ==
    IF iface.ipv4.mtu > iface.ipv6.mtu THEN iface.ipv4.mtu ELSE iface.ipv6.mtu

\* the else of lines 239 and 241 missing: one line per test that holds
IPForwardNoElse(iface) ==
    (IF iface.ipv4.forwarding /\ iface.ipv6.forwarding THEN "IPForward=yes\n" ELSE "")
    \o (IF iface.ipv4.forwarding THEN "IPForward=ipv4\n" ELSE "")
    \o (IF iface.ipv6.forwarding THEN "IPForward=ipv6\n" ELSE "")

IPForward(iface) ==
    IF iface.ipv4.forwarding /\ iface.ipv6.forwarding THEN "IPForward=yes\n"
    ELSE IF iface.ipv4.forwarding THEN "IPForward=ipv4\n"
    ELSE IF iface.ipv6.forwarding THEN "IPForward=ipv6\n"
    ELSE ""

IfaceConf(iface) ==
    PutAddrs(PutAddrs("# AUTOGENERATED BY " \o Ident \o "\n"
                      \o "[Match]\n"
                      \o "Name=" \o iface.name \o "\n"
                      \o "[Link]\n"
                      \o "MTUBytes=" \o Dec(MTUBytes(iface)) \o "\n"
                      \o "[Network]\n"
                      \o "DHCP=" \o (IF iface.dhcp.enabled THEN "yes" ELSE "no") \o "\n",
                      iface.ipv4.addr, 1),
             iface.ipv6.addr, 1)
    \o IPForward(iface)

\* the deletion limited to the files of the interfaces of the new list
set_if_addr_rm_listed ==
    /\ At("set_if_addr", "rm")
    /\ \E res \in Outcomes :
          /\ trace' = Append(trace,
                 Ev("system", "rm -f /etc/systemd/network/*.network", res))
          /\ files' = IF res = "ok"
                      THEN [p \in DOMAIN files
                                 \ {NetPath(cb.arg.iface[i].name) : i \in 1..Len(cb.arg.iface)}
                               |-> files[p]]
                      ELSE files
          /\ cb' = Step(IF cb.i > Len(cb.arg.iface) THEN "reload" ELSE "fopen", res)
    /\ UNCHANGED <<loopvars, last, nev, sig>>

set_if_addr_rm ==
    /\ At("set_if_addr", "rm")
    /\ \E res \in Outcomes :
          /\ trace' = Append(trace,
                 Ev("system", "rm -f /etc/systemd/network/*.network", res))
          /\ files' = IF res = "ok"
                      THEN [p \in DOMAIN files \ Glob(files) |-> files[p]]
                      ELSE files
          /\ cb' = Step(IF cb.i > Len(cb.arg.iface) THEN "reload" ELSE "fopen", res)
    /\ UNCHANGED <<loopvars, last, nev, sig>>

\* the files written so far in the pass removed when an open fails
set_if_addr_fopen_rollback ==
    /\ At("set_if_addr", "fopen")
    /\ LET systemd_cfg == NetPath(cb.arg.iface[cb.i].name)
           done == {NetPath(cb.arg.iface[j].name) : j \in 1..(cb.i - 1)}
       IN \E res \in Outcomes :
             /\ trace' = Append(trace, Ev("fopen", systemd_cfg, res))
             /\ files' = IF res = "ok" THEN Truncate(files, systemd_cfg)
                         ELSE [p \in DOMAIN files \ done |-> files[p]]
             /\ cb' = Step(IF res = "ok" THEN "write" ELSE "ret", res)
    /\ UNCHANGED <<loopvars, last, nev, sig>>

\* continue in the place of the return of line 215
set_if_addr_fopen_continue ==
    /\ At("set_if_addr", "fopen")
    /\ LET systemd_cfg == NetPath(cb.arg.iface[cb.i].name)
       IN \E res \in Outcomes :
             /\ trace' = Append(trace, Ev("fopen", systemd_cfg, res))
             /\ files' = IF res = "ok" THEN Truncate(files, systemd_cfg) ELSE files
             /\ cb' = IF res = "ok" THEN Step("write", res)
                      ELSE [Step(IF cb.i + 1 > Len(cb.arg.iface) THEN "reload" ELSE "fopen",
                                 res) EXCEPT !.i = @ + 1]
    /\ UNCHANGED <<loopvars, last, nev, sig>>

set_if_addr_fopen ==
    /\ At("set_if_addr", "fopen")
    /\ LET systemd_cfg == NetPath(cb.arg.iface[cb.i].name)
       IN \E res \in Outcomes :
             /\ trace' = Append(trace, Ev("fopen", systemd_cfg, res))
             /\ files' = IF res = "ok" THEN Truncate(files, systemd_cfg) ELSE files
             /\ cb' = Step(IF res = "ok" THEN "write" ELSE "ret", res)
    /\ UNCHANGED <<loopvars, last, nev, sig>>

\* line 247 moved into the loop: one reload per interface
set_if_addr_write_reload ==
    /\ At("set_if_addr", "write")
    /\ LET iface == cb.arg.iface[cb.i]
       IN /\ trace' = trace \o
                 <<Ev("fclose", NetPath(iface.name), "ok"),
                   Ev("system", "systemctl reload-or-restart systemd-networkd", "ok")>>
          /\ files' = Flush(files, NetPath(iface.name), IfaceConf(iface))
    /\ cb' = [cb EXCEPT !.i = @ + 1,
                        !.pc = IF cb.i + 1 > Len(cb.arg.iface) THEN "reload" ELSE "fopen"]
    /\ UNCHANGED <<loopvars, last, nev, sig>>

set_if_addr_write ==
    /\ At("set_if_addr", "write")
    /\ LET iface == cb.arg.iface[cb.i]
       IN /\ trace' = Append(trace, Ev("fclose", NetPath(iface.name), "ok"))
          /\ files' = Flush(files, NetPath(iface.name), IfaceConf(iface))
    /\ cb' = [cb EXCEPT !.i = @ + 1,
                        !.pc = IF cb.i + 1 > Len(cb.arg.iface) THEN "reload" ELSE "fopen"]
    /\ UNCHANGED <<loopvars, last, nev, sig>>

set_if_addr_reload ==
    /\ At("set_if_addr", "reload")
    /\ \E res \in Outcomes :
          /\ trace' = Append(trace,
                 Ev("system", "systemctl reload-or-restart systemd-networkd", res))
          /\ cb' = Step("ret", res)
    /\ UNCHANGED <<loopvars, files, last, nev, sig>>

(* ---------------------------- set_if_neigh ---------------------------- *)

Replace(ip, name) ==
    "ip neigh replace " \o ip.address \o " lladdr " \o ip.value
        \o " nud permanent dev " \o name

\* the two inner loops in the other order
IfaceNeigh6First(iface) ==
    [j \in 1..Len(iface.ipv6.neigh) |-> Replace(iface.ipv6.neigh[j], iface.name)]
    \o [j \in 1..Len(iface.ipv4.neigh) |-> Replace(iface.ipv4.neigh[j], iface.name)]

\* the two inner loops: the IPv4 neighbours of iface, then its IPv6 ones
IfaceNeigh(iface) ==
    [j \in 1..Len(iface.ipv4.neigh) |-> Replace(iface.ipv4.neigh[j], iface.name)]
    \o [j \in 1..Len(iface.ipv6.neigh) |-> Replace(iface.ipv6.neigh[j], iface.name)]

\* the outer loop, from interface i on
RECURSIVE NeighCmds(_, _)
NeighCmds(info, i) ==
    IF i > Len(info.iface) THEN <<>>
    ELSE IfaceNeigh(info.iface[i]) \o NeighCmds(info, i + 1)

\* the pass given up when the flush fails
set_if_neigh_flush_abort ==
    /\ At("set_if_neigh", "flush")
    /\ \E res \in Outcomes :
          /\ trace' = Append(trace, Ev("system", "ip neigh flush nud permanent", res))
          /\ cb' = Step(IF res = "fail" \/ NeighCmds(cb.arg, 1) = <<>>
                        THEN "ret" ELSE "replace", res)
    /\ UNCHANGED <<loopvars, files, last, nev, sig>>

set_if_neigh_flush ==
    /\ At("set_if_neigh", "flush")
    /\ \E res \in Outcomes :
          /\ trace' = Append(trace, Ev("system", "ip neigh flush nud permanent", res))
          /\ cb' = Step(IF NeighCmds(cb.arg, 1) = <<>> THEN "ret" ELSE "replace", res)
    /\ UNCHANGED <<loopvars, files, last, nev, sig>>

\* cb.i counts the replace commands of the pass
set_if_neigh_replace ==
    /\ At("set_if_neigh", "replace")
    /\ LET cmds == NeighCmds(cb.arg, 1)
       IN \E res \in Outcomes :
             /\ trace' = Append(trace, Ev("system", cmds[cb.i], res))
             /\ cb' = [Step(IF cb.i + 1 > Len(cmds) THEN "ret" ELSE "replace", res)
                          EXCEPT !.i = @ + 1]
    /\ UNCHANGED <<loopvars, files, last, nev, sig>>

(* ------------------------- users (inputs) ----------------------------- *)

\* the identities set_ssh_keys tells apart: an ordinary account and the two
\* fixed ones
UserNames == <<"alice", "root", "netconfd">>

UserName(k) == UserNames[k]

\* struct auth_ssh_key: algo, data, name
SshKey(j) == [algo |-> "ssh-ed25519", data |-> "AAAA" \o Dec(j), name |-> "key" \o Dec(j)]

\* struct auth_user with n keys: name, password, ssh (count, ssh[])
User(k, n) ==
    [name |-> UserName(k), password |-> "secret",
     ssh |-> [ssh |-> [j \in 1..n |-> SshKey(j)]]]

\* struct auth_list: count, user[]
AuthArgs ==
    UNION {{[user |-> w] : w \in Windows([k \in 1..Len(UserNames) |-> User(k, n)])} :
           n \in 0..MaxList}

\* pw_dir of an account that has one
PwDir(name) == "/home/" \o name

AuthPaths ==
    {ROOT_HOME \o "/.ssh/authorized_keys", "/etc/netconf/authorized_keys"}
    \cup {PwDir(UserName(k)) \o "/.ssh/authorized_keys" : k \in 1..Len(UserNames)}

(* ------------------- set_authentication, set_ssh_keys ----------------- *)

RECURSIVE PutKeys(_, _, _)
PutKeys(buf, list, i) ==
    IF i > Len(list.ssh) THEN buf
    ELSE PutKeys(buf \o list.ssh[i].algo \o " " \o list.ssh[i].data \o " "
                     \o list.ssh[i].name \o "\n",
                 list, i + 1)

\* set_ssh_keys returned: the loop of set_authentication goes on
NextUser == [cb EXCEPT !.pc = "loop", !.i = @ + 1, !.path = ""]

set_authentication_loop ==
    /\ At("set_authentication", "loop")
    /\ IF cb.i > Len(cb.arg.user)
       THEN /\ cb' = [cb EXCEPT !.pc = "ret"]
            /\ UNCHANGED trace
       ELSE /\ cb' = [cb EXCEPT !.pc = "resolve"]
            /\ trace' = Append(trace, Ev("set_ssh_keys", cb.arg.user[cb.i].name, "ok"))
    /\ UNCHANGED <<loopvars, files, last, nev, sig>>

\* the test of pw_dir of line 161 missing
set_ssh_keys_resolve_nodir ==
    /\ At("set_authentication", "resolve")
    /\ LET name == cb.arg.user[cb.i].name
           list == cb.arg.user[cb.i].ssh
       IN IF name = "root"
          THEN /\ cb' = [cb EXCEPT !.pc = "fopen",
                                   !.path = ROOT_HOME \o "/.ssh/authorized_keys"]
               /\ UNCHANGED trace
          ELSE IF name = "netconfd"
          THEN /\ cb' = [cb EXCEPT !.pc = "fopen",
                                   !.path = "/etc/netconf/authorized_keys"]
               /\ UNCHANGED trace
          ELSE \E pw \in {"nouser", "nohome", "ok"} :
                  IF pw = "nouser" \/ Len(list.ssh) = 0
                  THEN /\ trace' = Append(trace, Ev("getpwnam", name, pw))
                       /\ cb' = NextUser
                  ELSE \E res \in Outcomes :
                          LET auth_file == "(null)/.ssh/authorized_keys"
                          IN /\ trace' = trace \o <<Ev("getpwnam", name, pw),
                                                    Ev("asprintf", auth_file, res)>>
                             /\ cb' = IF res = "ok"
                                      THEN [cb EXCEPT !.pc = "mkdir", !.path = auth_file]
                                      ELSE [NextUser EXCEPT !.nfail = @ + 1]
    /\ UNCHANGED <<loopvars, files, last, nev, sig>>

\* the test of list->count of line 161 missing
set_ssh_keys_resolve_nocount ==
    /\ At("set_authentication", "resolve")
    /\ LET name == cb.arg.user[cb.i].name
           list == cb.arg.user[cb.i].ssh
       IN IF name = "root"
          THEN /\ cb' = [cb EXCEPT !.pc = "fopen",
                                   !.path = ROOT_HOME \o "/.ssh/authorized_keys"]
               /\ UNCHANGED trace
          ELSE IF name = "netconfd"
          THEN /\ cb' = [cb EXCEPT !.pc = "fopen",
                                   !.path = "/etc/netconf/authorized_keys"]
               /\ UNCHANGED trace
          ELSE \E pw \in {"nouser", "nohome", "ok"} :
                  IF pw = "nouser" \/ pw = "nohome"
                  THEN /\ trace' = Append(trace, Ev("getpwnam", name, pw))
                       /\ cb' = NextUser
                  ELSE \E res \in Outcomes :
                          LET auth_file == PwDir(name) \o "/.ssh/authorized_keys"
                          IN /\ trace' = trace \o <<Ev("getpwnam", name, pw),
                                                    Ev("asprintf", auth_file, res)>>
                             /\ cb' = IF res = "ok"
                                      THEN [cb EXCEPT !.pc = "mkdir", !.path = auth_file]
                                      ELSE [NextUser EXCEPT !.nfail = @ + 1]
    /\ UNCHANGED <<loopvars, files, last, nev, sig>>

\* lines 151-166: the path of the authorized_keys file of the account
set_ssh_keys_resolve ==
    /\ At("set_authentication", "resolve")
    /\ LET name == cb.arg.user[cb.i].name
           list == cb.arg.user[cb.i].ssh
       IN IF name = "root"
          THEN /\ cb' = [cb EXCEPT !.pc = "fopen",
                                   !.path = ROOT_HOME \o "/.ssh/authorized_keys"]
               /\ UNCHANGED trace
          ELSE IF name = "netconfd"
          THEN /\ cb' = [cb EXCEPT !.pc = "fopen",
                                   !.path = "/etc/netconf/authorized_keys"]
               /\ UNCHANGED trace
          ELSE \E pw \in {"nouser", "nohome", "ok"} :
                  IF pw = "nouser" \/ pw = "nohome" \/ Len(list.ssh) = 0
                  THEN /\ trace' = Append(trace, Ev("getpwnam", name, pw))
                       /\ cb' = NextUser
                  ELSE \E res \in Outcomes :
                          LET auth_file == PwDir(name) \o "/.ssh/authorized_keys"
                          IN /\ trace' = trace \o <<Ev("getpwnam", name, pw),
                                                    Ev("asprintf", auth_file, res)>>
                             /\ cb' = IF res = "ok"
                                      THEN [cb EXCEPT !.pc = "mkdir", !.path = auth_file]
                                      ELSE [NextUser EXCEPT !.nfail = @ + 1]
    /\ UNCHANGED <<loopvars, files, last, nev, sig>>

set_ssh_keys_mkdir ==
    /\ At("set_authentication", "mkdir")
    /\ \E res \in Outcomes :
          /\ trace' = Append(trace,
                 Ev("system", "mkdir -p " \o PwDir(cb.arg.user[cb.i].name) \o "/.ssh", res))
          /\ cb' = Step("fopen", res)
    /\ UNCHANGED <<loopvars, files, last, nev, sig>>

set_ssh_keys_fopen ==
    /\ At("set_authentication", "fopen")
    /\ \E res \in Outcomes :
          /\ trace' = Append(trace, Ev("fopen", cb.path, res))
          /\ files' = IF res = "ok" THEN Truncate(files, cb.path) ELSE files
          /\ cb' = IF res = "ok" THEN Step("write", res)
                   ELSE [NextUser EXCEPT !.nfail = @ + 1]
    /\ UNCHANGED <<loopvars, last, nev, sig>>

set_ssh_keys_write ==
    /\ At("set_authentication", "write")
    /\ trace' = Append(trace, Ev("fclose", cb.path, "ok"))
    /\ files' = Flush(files, cb.path, PutKeys("", cb.arg.user[cb.i].ssh, 1))
    /\ cb' = NextUser
    /\ UNCHANGED <<loopvars, last, nev, sig>>

(* ------------------------------ set_value ----------------------------- *)

\* the parameters the transport reports as changed: the one set_value tests
\* for, and others
ValuePaths == {"system.hostname", "system.location", "system.contact", "hostname"}

\* their values, one of them made to end the quoting of a shell command
ValueStrs == {"metropolis", "", "lab 1", "x'; reboot; '"}

ValueArgs == [path : ValuePaths, str : ValueStrs]

\* the call of line 279 compiled in
set_value_hostnamectl ==
    /\ At("set_value", "strcmp")
    /\ IF cb.arg.path = "system.hostname"
       THEN \E res \in Outcomes :
               /\ trace' = Append(trace,
                      Ev("system", "hostnamectl set-hostname '" \o cb.arg.str \o "'", res))
               /\ cb' = Step("ret", res)
       ELSE /\ cb' = [cb EXCEPT !.pc = "ret"]
            /\ UNCHANGED trace
    /\ UNCHANGED <<loopvars, files, last, nev, sig>>

\* lines 271-281: the message is logged at LOG_DEBUG; the branch of
\* "system.hostname" is empty, its command being under #if 0
set_value ==
    /\ At("set_value", "strcmp")
    /\ cb' = [cb EXCEPT !.pc = "ret"]
    /\ UNCHANGED <<loopvars, files, trace, last, nev, sig>>

(* --------------------------- the event loop --------------------------- *)

\* callbacks invoked from the signal handler itself, whatever is executing
LoopAnyTime == proc = "running"

\* ev_run invokes a callback only when no other callback is executing
LoopIdle == proc = "running" /\ cb.fn = "none"

\* a renderer returned to the callback that called it
Return ==
    /\ proc = "running"
    /\ cb.pc = "ret"
    /\ cb' = Idle
    /\ UNCHANGED <<loopvars, files, trace, last, nev, sig>>

\* the same return, the completed pass noted in last
ReturnNoted ==
    /\ proc = "running"
    /\ cb.pc = "ret"
    /\ last' = [fn |-> cb.fn, arg |-> cb.arg, trace |-> trace, files |-> files]
    /\ cb' = Idle
    /\ UNCHANGED <<loopvars, files, trace, nev, sig>>

\* the first step of each renderer
Entry(fn) ==
    CASE fn = "set_ntp_server" -> "fopen"
      [] fn = "set_dns" -> "fopen"
      [] fn = "set_if_addr" -> "rm"
      [] fn = "set_if_neigh" -> "flush"
      [] fn = "set_authentication" -> "loop"
      [] fn = "set_value" -> "strcmp"

\* the transport's callback runs and calls renderer fn with arg
Call(fn, arg) ==
    /\ LoopIdle
    /\ nev < MaxEvents
    /\ nev' = nev + 1
    /\ cb' = [fn |-> fn, arg |-> arg, pc |-> Entry(fn), i |-> 1, nfail |-> 0,
              path |-> "", files0 |-> files]
    /\ trace' = <<>>
    /\ UNCHANGED <<loopvars, files, last, sig>>

\* the kernel delivers signal s to the process, at any moment: the loop's own
\* handler notes it if a watcher of s is started, else the default action of
\* s ends the process
Signal(s) ==
    /\ proc = "running"
    /\ nev < MaxEvents
    /\ nev' = nev + 1
    /\ sig' = s
    /\ IF s \in watchers
       THEN /\ sigpend' = sigpend \cup {s}
            /\ UNCHANGED proc
       ELSE /\ proc' = "killed"
            /\ UNCHANGED sigpend
    /\ UNCHANGED <<loop_done, watchers, logx_level, files, cb, trace, last>>

sig_usr1 ==
    /\ LoopIdle
    /\ "SIGUSR1" \in sigpend
    /\ sigpend' = sigpend \ {"SIGUSR1"}
    /\ UNCHANGED <<proc, loop_done, watchers, logx_level, files, cb, trace, last, nev, sig>>

\* the level set to LOG_DEBUG, not switched
sig_usr2_debug ==
    /\ LoopIdle
    /\ "SIGUSR2" \in sigpend
    /\ sigpend' = sigpend \ {"SIGUSR2"}
    /\ logx_level' = "LOG_DEBUG"
    /\ UNCHANGED <<proc, loop_done, watchers, files, cb, trace, last, nev, sig>>

sig_usr2 ==
    /\ LoopIdle
    /\ "SIGUSR2" \in sigpend
    /\ sigpend' = sigpend \ {"SIGUSR2"}
    /\ logx_level' = IF logx_level = "LOG_DEBUG" THEN "LOG_INFO" ELSE "LOG_DEBUG"
    /\ UNCHANGED <<proc, loop_done, watchers, files, cb, trace, last, nev, sig>>

sig_pipe ==
    /\ LoopIdle
    /\ "SIGPIPE" \in sigpend
    /\ sigpend' = sigpend \ {"SIGPIPE"}
    /\ UNCHANGED <<proc, loop_done, watchers, logx_level, files, cb, trace, last, nev, sig>>

\* line 311 missing: the watcher stays started
sig_term_kept(w) ==
    /\ LoopIdle
    /\ w \in sigpend
    /\ sigpend' = sigpend \ {w}
    /\ loop_done' = TRUE
    /\ UNCHANGED <<proc, watchers, logx_level, files, cb, trace, last, nev, sig>>

\* the three termination watchers stopped by the first of them that runs
sig_term_all(w) ==
    /\ LoopIdle
    /\ w \in sigpend
    /\ sigpend' = sigpend \ {w}
    /\ loop_done' = TRUE
    /\ watchers' = watchers \ TermSignals
    /\ UNCHANGED <<proc, logx_level, files, cb, trace, last, nev, sig>>

\* w is the watcher of one of SIGHUP, SIGINT, SIGTERM
sig_term(w) ==
    /\ LoopIdle
    /\ w \in sigpend
    /\ sigpend' = sigpend \ {w}
    /\ loop_done' = TRUE
    /\ watchers' = watchers \ {w}
    /\ UNCHANGED <<proc, logx_level, files, cb, trace, last, nev, sig>>

\* ev_run returns once a break was requested and no callback is executing;
\* main returns 0
ev_run_return ==
    /\ LoopIdle
    /\ loop_done
    /\ proc' = "exited"
    /\ UNCHANGED <<loop_done, watchers, sigpend, logx_level, files, cb, trace, last, nev, sig>>

(* -------------------------------- Init -------------------------------- *)

AllPaths ==
    {NtpPath, DnsPath} \cup {NetPath(n) : n \in NetNames} \cup AuthPaths

\* the disk at startup: a fresh system, or one an earlier run has configured
Disks ==
    {[p \in {"/etc/hostname"} |-> "metropolis\n"],
     [p \in AllPaths \cup {"/etc/hostname"} |->
         IF p = "/etc/hostname" THEN "metropolis\n" ELSE "# earlier run\n"]}

\* main up to ev_run: logx_level is LOG_INFO, or LOG_DEBUG under -x; the six
\* signal watchers are started
Init ==
    /\ proc = "running"
    /\ loop_done = FALSE
    /\ watchers = Signals
    /\ sigpend = {}
    /\ logx_level \in {"LOG_INFO", "LOG_DEBUG"}
    /\ files \in Disks
    /\ cb = Idle
    /\ trace = <<>>
    /\ last = NoPass
    /\ nev = 0
    /\ sig = "none"

\* the same, the daemon started without -x
InitInfo == Init /\ logx_level = "LOG_INFO"

(* ------------------------------- Next --------------------------------- *)

NtpSteps ==
    set_ntp_server_fopen \/ set_ntp_server_write \/ set_ntp_server_stop
        \/ set_ntp_server_toggle

DnsSteps == set_dns_fopen \/ set_dns_write \/ set_dns_reload

IfAddrSteps ==
    set_if_addr_rm \/ set_if_addr_fopen \/ set_if_addr_write \/ set_if_addr_reload

IfNeighSteps == set_if_neigh_flush \/ set_if_neigh_replace

AuthSteps ==
    set_authentication_loop \/ set_ssh_keys_resolve \/ set_ssh_keys_mkdir
        \/ set_ssh_keys_fopen \/ set_ssh_keys_write

RenderSteps == NtpSteps \/ DnsSteps \/ IfAddrSteps \/ IfNeighSteps \/ AuthSteps

Steps == RenderSteps \/ Return

Deliver ==
    \/ \E arg \in NtpArgs : Call("set_ntp_server", arg)
    \/ \E arg \in DnsArgs : Call("set_dns", arg)
    \/ \E arg \in IfAddrArgs : Call("set_if_addr", arg)
    \/ \E arg \in IfNeighArgs : Call("set_if_neigh", arg)
    \/ \E arg \in AuthArgs : Call("set_authentication", arg)
    \/ \E arg \in ValueArgs : Call("set_value", arg)

SignalSteps ==
    \/ \E s \in Signals : Signal(s)
    \/ sig_usr1
    \/ sig_usr2
    \/ sig_pipe
    \/ \E w \in TermSignals : sig_term(w)
    \/ ev_run_return

Next == Deliver \/ Steps \/ set_value \/ SignalSteps

Spec == Init /\ [][Next]_vars

(* --------------------- the renderers one at a time -------------------- *)

\* The renderers share no file and no state, so each is also run alone: the
\* transport then delivers changes of one configuration domain only, and no
\* signal arrives.

DeliverNtp == \E arg \in NtpArgs : Call("set_ntp_server", arg)

NextNtp == DeliverNtp \/ NtpSteps \/ Return

SpecNtp == InitInfo /\ [][NextNtp]_vars

DeliverDns == \E arg \in DnsArgs : Call("set_dns", arg)

NextDns == DeliverDns \/ DnsSteps \/ Return

SpecDns == InitInfo /\ [][NextDns]_vars

DeliverIfAddr == \E arg \in IfAddrArgs : Call("set_if_addr", arg)

NextIfAddr == DeliverIfAddr \/ IfAddrSteps \/ Return

SpecIfAddr == InitInfo /\ [][NextIfAddr]_vars

DeliverIfNeigh == \E arg \in IfNeighArgs : Call("set_if_neigh", arg)

NextIfNeigh == DeliverIfNeigh \/ IfNeighSteps \/ Return

SpecIfNeigh == InitInfo /\ [][NextIfNeigh]_vars

DeliverAuth == \E arg \in AuthArgs : Call("set_authentication", arg)

NextAuth == DeliverAuth \/ AuthSteps \/ Return

SpecAuth == InitInfo /\ [][NextAuth]_vars

DeliverValue == \E arg \in ValueArgs : Call("set_value", arg)

NextValue == DeliverValue \/ set_value \/ Return

SpecValue == Init /\ [][NextValue]_vars

(* ------------------- the same change delivered again ------------------ *)

Args(fn) ==
    CASE fn = "set_ntp_server" -> NtpArgs
      [] fn = "set_dns" -> DnsArgs
      [] fn = "set_if_addr" -> IfAddrArgs
      [] fn = "set_if_neigh" -> IfNeighArgs
      [] fn = "set_authentication" -> AuthArgs

Renderers ==
    {"set_ntp_server", "set_dns", "set_if_addr", "set_if_neigh", "set_authentication"}

\* the transport delivers any change first, and from then on the same change
DeliverAgain ==
    IF last.fn = "none"
    THEN \E fn \in Renderers : \E arg \in Args(fn) : Call(fn, arg)
    ELSE Call(last.fn, last.arg)

NextTwice == DeliverAgain \/ RenderSteps \/ ReturnNoted

SpecTwice == InitInfo /\ [][NextTwice]_vars

(* ------------------- signals while changes are applied ---------------- *)

\* one change of each domain
Sample(fn) ==
    CASE fn = "set_ntp_server" -> [enabled |-> 1, server |-> <<"ntp1.example">>]
      [] fn = "set_dns" -> [search |-> <<DnsDomain(1)>>, servers |-> <<DnsServer(1)>>]
      [] fn \in {"set_if_addr", "set_if_neigh"} -> [iface |-> <<Iface(1, 0)>>]
      [] fn = "set_authentication" -> [user |-> <<User(1, 1)>>]

DeliverSample == \E fn \in Renderers : Call(fn, Sample(fn))

NextLoop == DeliverSample \/ Steps \/ SignalSteps

SpecLoop == Init /\ [][NextLoop]_vars

(* ============================== claims ================================ *)

\* what a trace says: the commands handed to system(), in order
Cmds(t) == LET c == SelectSeq(t, LAMBDA e : e.op = "system")
           IN [k \in 1..Len(c) |-> c[k].what]

\* the calls made, in order
Ops(t) == [k \in 1..Len(t) |-> t[k].op]

\* the outcomes the environment gave, in order
Results(t) == [k \in 1..Len(t) |-> t[k].res]

IsPrefix(a, b) == Len(a) <= Len(b) /\ a = SubSeq(b, 1, Len(a))

OpensOk(t) == \A k \in 1..Len(t) : t[k].op = "fopen" => t[k].res = "ok"

\* the interface names that have a file in /etc/systemd/network
NetworkFiles == {n \in NetNames : NetPath(n) \in DOMAIN files}

ListedNames(info) == {info.iface[i].name : i \in 1..Len(info.iface)}

PassDone(fn) == cb.fn = fn /\ cb.pc = "ret"

\* the pieces of string s between the occurrences of the character sep, in
\* order; a piece that would end the list empty is left out
Split(s, sep) ==
    LET cuts == {k \in 1..Len(s) : SubSeq(s, k, k) = sep} \cup {0, Len(s) + 1}
        rank == [c \in cuts |-> Cardinality({x \in cuts : x < c})]
        cut == [n \in 0..(Cardinality(cuts) - 1) |-> CHOOSE c \in cuts : rank[c] = n]
        all == [n \in 1..(Cardinality(cuts) - 1) |->
                   IF cut[n] = cut[n - 1] + 1 THEN ""
                   ELSE SubSeq(s, cut[n - 1] + 1, cut[n] - 1)]
    IN IF all[Len(all)] = "" THEN SubSeq(all, 1, Len(all) - 1) ELSE all

\* the lines of a file
Lines(s) == Split(s, "\n")

HasPrefix(s, p) == Len(s) >= Len(p) /\ SubSeq(s, 1, Len(p)) = p

\* the lines of a file that begin with key, each with the position it begins at
KeyLines(s, key) ==
    LET ends == {k \in 1..Len(s) : SubSeq(s, k, k) = "\n"} \cup {Len(s) + 1}
        starts == {a \in {1} \cup {k + 1 : k \in ends} :
                      a + Len(key) - 1 <= Len(s) /\ SubSeq(s, a, a + Len(key) - 1) = key}
        end(a) == CHOOSE e \in ends : e > a /\ \A x \in ends : x > a => e <= x
    IN {<<a, SubSeq(s, a, end(a) - 1)>> : a \in starts}

\* the interfaces of the list whose file the set_if_addr pass in progress has
\* written and closed
Written == 1..(cb.i - 1)

(* ------------------------------- C1 ----------------------------------- *)

C2_Idempotence ==
    (cb.pc = "ret" /\ last.fn = cb.fn /\ last.arg = cb.arg
        /\ Results(trace) = Results(last.trace))
        => (files = last.files /\ Cmds(trace) = Cmds(last.trace)
               /\ Ops(trace) = Ops(last.trace))

\* a second pass that wrote a file over the one the first pass wrote
C2_Witness ==
    /\ cb.pc = "ret"
    /\ last.fn = cb.fn
    /\ last.arg = cb.arg
    /\ Results(trace) = Results(last.trace)
    /\ \E k \in 1..Len(trace) : trace[k].op = "fclose"
    /\ Len(Cmds(trace)) > 0

(* ------------------------------- C3 ----------------------------------- *)

\* the toggle of a pass: timedatectl set-ntp with the value of enabled
C3_Toggle(servers) ==
    IF servers.enabled = 1 THEN "timedatectl set-ntp 1" ELSE "timedatectl set-ntp 0"

\* the calls of a set_ntp_server pass whose fopen succeeded, in order
C3_Order == <<"fopen", "fclose", "system", "system">>

\* C3 as stated: once timesyncd.conf is written, set_ntp_server restarts the
\* time-sync service and then issues the toggle: the commands of a completed
\* pass are a restart of systemd-timesyncd followed by the toggle.
C3_RestartThenToggle_AsStated ==
    (PassDone("set_ntp_server") /\ trace[1].res = "ok")
        => /\ Len(Cmds(trace)) = 2
           /\ Cmds(trace)[1] \in {"systemctl restart systemd-timesyncd",
                                   "systemctl reload-or-restart systemd-timesyncd",
                                   "systemctl try-restart systemd-timesyncd"}
           /\ Cmds(trace)[2] = C3_Toggle(cb.arg)

\* C3 as amended: once timesyncd.conf is written, set_ntp_server stops the
\* time-sync service (systemctl stop, no restart) and, after that, issues one
\* toggle with the value of enabled; the file is opened, written and closed
\* before both commands.  At every moment of the pass the calls made so far
\* are the beginning of: fopen, fclose, stop, toggle.
C3_StopThenToggle ==
    (cb.fn = "set_ntp_server" /\ Len(trace) > 0 /\ trace[1].res = "ok")
        => /\ IsPrefix(Ops(trace), C3_Order)
           /\ IsPrefix(Cmds(trace),
                       <<"systemctl stop systemd-timesyncd", C3_Toggle(cb.arg)>>)
           /\ cb.pc = "ret" => Len(trace) = Len(C3_Order)
           /\ Len(trace) >= 2 => files[NtpPath] # ""

\* a completed pass that disables time synchronisation
C3_Witness ==
    /\ PassDone("set_ntp_server")
    /\ trace[1].res = "ok"
    /\ cb.arg.enabled = 0
    /\ Len(cb.arg.server) = 2
    /\ Len(Cmds(trace)) = 2

(* ------------------------------- C4 ----------------------------------- *)

\* C4: when timesyncd.conf cannot be opened, set_ntp_server hands no command
\* to the shell and leaves the disk as it was when the pass began.
C4_NtpOpenFailure ==
    (cb.fn = "set_ntp_server" /\ Len(trace) > 0 /\ trace[1].res = "fail")
        => /\ Cmds(trace) = <<>>
           /\ files = cb.files0
           /\ Len(trace) = 1
           /\ cb.pc = "ret"

\* the open failed on a system that had a timesyncd.conf
C4_Witness ==
    /\ PassDone("set_ntp_server")
    /\ trace = <<Ev("fopen", NtpPath, "fail")>>
    /\ NtpPath \in DOMAIN files
    /\ Len(cb.arg.server) > 0

(* ------------------------------- C5 ----------------------------------- *)

C5_Bind(ip, name) ==
    "ip neigh replace " \o ip.address \o " lladdr " \o ip.value
        \o " nud permanent dev " \o name

\* the entries of one interface as <<family, index>>, IPv4 before IPv6
C5_Entries(iface) ==
    [j \in 1..Len(iface.ipv4.neigh) |-> <<4, j>>]
    \o [j \in 1..Len(iface.ipv6.neigh) |-> <<6, j>>]

\* the entries of a list as <<interface, family, index>>, in list order
RECURSIVE C5_All(_, _)
C5_All(info, n) ==
    IF n = 0 THEN <<>>
    ELSE C5_All(info, n - 1)
         \o [k \in 1..Len(C5_Entries(info.iface[n])) |->
                <<n>> \o C5_Entries(info.iface[n])[k]]

C5_Command(info, e) ==
    LET iface == info.iface[e[1]]
    IN C5_Bind(IF e[2] = 4 THEN iface.ipv4.neigh[e[3]] ELSE iface.ipv6.neigh[e[3]],
               iface.name)

\* the commands of a whole pass
C5_Pass(info) ==
    LET all == C5_All(info, Len(info.iface))
    IN <<"ip neigh flush nud permanent">>
       \o [k \in 1..Len(all) |-> C5_Command(info, all[k])]

\* C5: a set_if_neigh pass flushes the permanent neighbours once, first, and
\* then issues one replace per static neighbour: interfaces in list order,
\* the IPv4 entries of an interface before its IPv6 ones, each binding the
\* entry's IP to its MAC on that interface.  At every moment of the pass the
\* commands issued so far are the beginning of that sequence, and the pass
\* does nothing else.
C5_NeighOrder ==
    cb.fn = "set_if_neigh"
        => /\ IsPrefix(Cmds(trace), C5_Pass(cb.arg))
           /\ Len(Cmds(trace)) = Len(trace)
           /\ cb.pc = "ret" => Cmds(trace) = C5_Pass(cb.arg)
           /\ files = cb.files0

\* a completed pass over two interfaces, the first with neighbours of both
\* families
C5_Witness ==
    /\ PassDone("set_if_neigh")
    /\ Len(cb.arg.iface) = 2
    /\ Len(cb.arg.iface[1].ipv4.neigh) > 0
    /\ Len(cb.arg.iface[1].ipv6.neigh) > 1
    /\ Len(cb.arg.iface[2].ipv4.neigh) > 1
    /\ Len(trace) = 6

(* ------------------------------- C6 ----------------------------------- *)

C6_Reload == "systemctl reload-or-restart systemd-networkd"

\* the places of the trace where the network service is reloaded
C6_Reloads(t) == {k \in 1..Len(t) : t[k].op = "system" /\ t[k].what = C6_Reload}

\* C6: a set_if_addr pass never reloads the network service before its last
\* step; a pass in which every open succeeded reloads it exactly once, as
\* its last step, after the rm and after one open and one close per
\* interface of the list, none included.
C6_SingleReload ==
    cb.fn = "set_if_addr"
        => /\ C6_Reloads(trace) \subseteq {Len(trace)}
           /\ C6_Reloads(trace) # {} => cb.pc = "ret"
           /\ (cb.pc = "ret" /\ OpensOk(trace))
                 => /\ C6_Reloads(trace) = {Len(trace)}
                    /\ Len(trace) = 2 * Len(cb.arg.iface) + 2
                    /\ trace[1].what = "rm -f /etc/systemd/network/*.network"
                    /\ \A i \in 1..Len(cb.arg.iface) :
                          /\ trace[2 * i].op = "fopen"
                          /\ trace[2 * i + 1].op = "fclose"
                          /\ trace[2 * i + 1].what = NetPath(cb.arg.iface[i].name)

\* a completed pass over two interfaces
C6_Witness ==
    /\ PassDone("set_if_addr")
    /\ OpensOk(trace)
    /\ Len(cb.arg.iface) = 2
    /\ C6_Reloads(trace) = {6}

(* ------------------------------- C7 ----------------------------------- *)

\* the items of a list, a space before each
C7_Join(list) ==
    LET RECURSIVE J(_)
        J(l) == IF l = <<>> THEN "" ELSE " " \o Head(l) \o J(Tail(l))
    IN J(list)

\* C7: a set_dns pass whose open succeeded leaves resolved.conf holding the
\* header, one DNS line with the name servers in input order and one Domains
\* line with the search domains in input order, whatever the file held
\* before; it then hands the shell exactly one command, the reload-or-restart
\* of systemd-resolved, after the file is closed.
C7_DnsRenderReload ==
    (PassDone("set_dns") /\ trace[1].res = "ok")
        => /\ files[DnsPath] =
                 "# AUTOGENERATED BY cfgd v1.0\n[Resolve]\nDNS ="
                     \o C7_Join(cb.arg.servers)
                     \o "\nDomains =" \o C7_Join(cb.arg.search)
           /\ Ops(trace) = <<"fopen", "fclose", "system">>
           /\ Cmds(trace) = <<"systemctl reload-or-restart systemd-resolved">>
           /\ \A p \in DOMAIN files \ {DnsPath} :
                 p \in DOMAIN cb.files0 /\ files[p] = cb.files0[p]

\* the scenario of the specification, over a resolved.conf of an earlier run
C7_Witness ==
    /\ PassDone("set_dns")
    /\ trace[1].res = "ok"
    /\ Len(cb.arg.servers) = 2
    /\ Len(cb.arg.search) = 1
    /\ DnsPath \in DOMAIN cb.files0
    /\ files[DnsPath] =
          "# AUTOGENERATED BY cfgd v1.0\n[Resolve]\nDNS = 192.0.2.1 192.0.2.2\nDomains = corp1.example"

(* ------------------------------- C8 ----------------------------------- *)

\* a step in which sig_term ran: a termination watcher was stopped
C8_Handled == watchers' # watchers

\* a step in which ev_run returned
C8_Exited == proc = "running" /\ proc' = "exited"

\* C8: the termination handler runs, and the loop exits, only in a step
\* taken while no renderer call is executing, and such a step leaves the
\* disk and the pass alone; a termination signal that arrives during a call
\* stays pending until the call has returned.
C8_NoInterruption ==
    [][/\ (C8_Handled \/ C8_Exited)
             => (cb.fn = "none" /\ cb' = cb /\ files' = files /\ trace' = trace)
       /\ \A s \in TermSignals :
             (cb.fn # "none" /\ s \in sigpend /\ proc' = "running")
                 => (s \in sigpend' /\ loop_done' = loop_done)]_vars

\* a termination signal pending while a renderer is between two of its steps
C8_Witness ==
    /\ cb.fn = "set_if_addr"
    /\ cb.pc = "write"
    /\ sig \in TermSignals
    /\ sig \in sigpend
    /\ ~loop_done
    /\ proc = "running"

(* ------------------------------- C9 ----------------------------------- *)

\* a step in which the kernel delivered a signal
C9_Delivered == nev' = nev + 1 /\ cb' = cb

\* C9: the handling of a termination signal requests the break and stops the
\* watcher of that signal; once the break is requested it stays requested;
\* a signal whose watcher is stopped is never again queued for the handler,
\* and its delivery ends the process at once.
C9_Shutdown ==
    [][/\ \A w \in TermSignals :
             (w \in sigpend /\ w \notin sigpend')
                 => (loop_done' /\ w \notin watchers' /\ watchers' = watchers \ {w})
       /\ loop_done => loop_done'
       /\ sigpend' \subseteq watchers'
       /\ (C9_Delivered /\ sig' \notin watchers) => proc' = "killed"
       /\ (C9_Delivered /\ sig' \in watchers) => (proc' = proc /\ sig' \in sigpend')]_vars

\* the same termination signal delivered again after its handler ran
C9_Witness ==
    /\ proc = "killed"
    /\ loop_done
    /\ sig \in TermSignals
    /\ sig \notin watchers

(* ------------------------------- C10 ---------------------------------- *)

\* the places of the trace where the account lookup found no account, or an
\* account without home directory
C10_Misses(t) ==
    {k \in 1..Len(t) : t[k].op = "getpwnam" /\ t[k].res \in {"nouser", "nohome"}}

\* C10: for a user other than root and netconfd whose lookup finds no
\* account or no home directory, set_ssh_keys does nothing after the lookup:
\* the lookup is the only thing the call does, so no file is opened and no
\* command is issued, whatever the keys are; a pass over such a user alone
\* leaves the disk as it was.
C10_UnresolvableNoop ==
    cb.fn = "set_authentication"
        => /\ \A k \in C10_Misses(trace) :
                 /\ trace[k].what \notin {"root", "netconfd"}
                 /\ trace[k - 1] = Ev("set_ssh_keys", trace[k].what, "ok")
                 /\ k < Len(trace) => trace[k + 1].op = "set_ssh_keys"
                 /\ k = Len(trace) => cb.pc \in {"loop", "ret"}
           /\ (Len(cb.arg.user) = 1 /\ C10_Misses(trace) # {})
                 => (files = cb.files0 /\ Len(trace) = 2)

\* the lookup of a user with two keys found no account; a user follows
C10_Witness ==
    /\ PassDone("set_authentication")
    /\ Len(cb.arg.user) = 2
    /\ Len(cb.arg.user[1].ssh.ssh) = 2
    /\ 2 \in C10_Misses(trace)
    /\ Len(trace) > 3

(* ------------------------------- C11 ---------------------------------- *)

\* a pass over users that all have an empty key list
C11_NoKeys ==
    /\ cb.fn = "set_authentication"
    /\ \A i \in 1..Len(cb.arg.user) : Len(cb.arg.user[i].ssh.ssh) = 0

\* the authorized_keys files of the two fixed identities
C11_FixedPath(name) ==
    IF name = "root" THEN "/home/root/.ssh/authorized_keys"
    ELSE "/etc/netconf/authorized_keys"

\* the paths the pass has opened so far
C11_Opened(t) == {t[k].what : k \in {j \in 1..Len(t) : t[j] = Ev("fopen", t[j].what, "ok")}}

\* the users of the list whose call of set_ssh_keys has returned
C11_Served ==
    {cb.arg.user[i].name : i \in 1..(IF cb.pc = "ret" THEN Len(cb.arg.user) ELSE cb.i - 1)}

\* C11 as stated: set_ssh_keys with an empty key list writes no file, for
\* every account name, root and netconfd included: a pass over users without
\* keys leaves the disk as it was, no file created and none truncated.
C11_ZeroKeyNoop_AsStated == C11_NoKeys => files = cb.files0

\* C11 as amended: with an empty key list set_ssh_keys writes no file and
\* issues no command for an account other than root and netconfd (the
\* lookup is all it does); for root and netconfd it opens the fixed
\* authorized_keys file for writing all the same, and a successful open
\* leaves that file existing and empty.  Every other file is left alone.
C11_ZeroKeyNoop ==
    C11_NoKeys
        => /\ Cmds(trace) = <<>>
           /\ C11_Opened(trace) \subseteq {C11_FixedPath("root"), C11_FixedPath("netconfd")}
           /\ \A k \in 1..Len(trace) :
                 /\ trace[k].op \in {"set_ssh_keys", "getpwnam", "fopen", "fclose"}
                 /\ trace[k].op = "getpwnam" => trace[k].what \notin {"root", "netconfd"}
                 /\ trace[k].op = "fopen"
                       => /\ trace[k - 1].op = "set_ssh_keys"
                          /\ trace[k - 1].what \in {"root", "netconfd"}
                          /\ trace[k].what = C11_FixedPath(trace[k - 1].what)
           /\ \A n \in C11_Served \cap {"root", "netconfd"} :
                 \E k \in 1..Len(trace) :
                    trace[k].op = "fopen" /\ trace[k].what = C11_FixedPath(n)
           /\ \A p \in C11_Opened(trace) :
                 /\ p \in DOMAIN files
                 /\ cb.pc # "write" => files[p] = ""
           /\ \A p \in (DOMAIN files \cup DOMAIN cb.files0) \ C11_Opened(trace) :
                 p \in DOMAIN files /\ p \in DOMAIN cb.files0 /\ files[p] = cb.files0[p]

\* a pass over an ordinary account and root, both without keys, that emptied
\* the authorized_keys file root had
C11_Witness ==
    /\ PassDone("set_authentication")
    /\ C11_NoKeys
    /\ Len(cb.arg.user) = 2
    /\ cb.arg.user[1].name = "alice"
    /\ cb.arg.user[2].name = "root"
    /\ trace[2] = Ev("getpwnam", "alice", "ok")
    /\ C11_FixedPath("root") \in DOMAIN cb.files0
    /\ cb.files0[C11_FixedPath("root")] # ""
    /\ files[C11_FixedPath("root")] = ""

(* ------------------------------- C12 ---------------------------------- *)

\* the IPForward lines the forwarding flags of an interface call for
C12_Clause(iface) ==
    CASE iface.ipv4.forwarding /\ iface.ipv6.forwarding -> <<"IPForward=yes">>
      [] iface.ipv4.forwarding /\ ~iface.ipv6.forwarding -> <<"IPForward=ipv4">>
      [] ~iface.ipv4.forwarding /\ iface.ipv6.forwarding -> <<"IPForward=ipv6">>
      [] OTHER -> <<>>

\* C12: the file a set_if_addr pass has written for an interface holds IPForward=yes
\* when both families forward, IPForward=ipv4 or IPForward=ipv6 when one
\* does, no IPForward line when none does, and never more than one such line.
C12_ForwardingClause ==
    PassDone("set_if_addr")
        => \A i \in Written :
              LET iface == cb.arg.iface[i]
                  clause == KeyLines(files[NetPath(iface.name)], "IPForward")
              IN /\ {l[2] : l \in clause} = {C12_Clause(iface)[k] : k \in 1..Len(C12_Clause(iface))}
                 /\ Cardinality(clause) <= 1

\* a pass that wrote the file of an interface forwarding IPv6 only and that
\* of an interface forwarding nothing
C12_Witness ==
    /\ PassDone("set_if_addr")
    /\ Written = {1, 2}
    /\ ~cb.arg.iface[1].ipv4.forwarding /\ cb.arg.iface[1].ipv6.forwarding
    /\ ~cb.arg.iface[2].ipv4.forwarding /\ ~cb.arg.iface[2].ipv6.forwarding
    /\ {l[2] : l \in KeyLines(files[NetPath("eth0")], "IPForward")} = {"IPForward=ipv6"}
    /\ KeyLines(files[NetPath("eth1")], "IPForward") = {}

(* ------------------------------- C13 ---------------------------------- *)

C13_Max(a, b) == IF a >= b THEN a ELSE b

\* the interface with the MTU values of the two families exchanged
C13_Swap(iface) ==
    [iface EXCEPT !.ipv4.mtu = iface.ipv6.mtu, !.ipv6.mtu = iface.ipv4.mtu]

\* C13: the file a set_if_addr pass has written for an interface holds one MTUBytes
\* line, whose value is the larger of the interface's IPv4 and IPv6 MTU; the
\* interface with the two MTU values exchanged renders to the same MTUBytes
\* value, and so to the same file.
C13_MtuSelection ==
    PassDone("set_if_addr")
        => /\ \A i \in 1..Len(cb.arg.iface) :
                 LET iface == cb.arg.iface[i]
                 IN /\ MTUBytes(iface) = C13_Max(iface.ipv4.mtu, iface.ipv6.mtu)
                    /\ MTUBytes(C13_Swap(iface)) = MTUBytes(iface)
           /\ \A i \in Written :
                 LET iface == cb.arg.iface[i]
                     file == files[NetPath(iface.name)]
                     lines == KeyLines(file, "MTUBytes")
                 IN /\ Cardinality(lines) = 1
                    /\ \A l \in lines :
                          l[2] = "MTUBytes=" \o Dec(C13_Max(iface.ipv4.mtu, iface.ipv6.mtu))
                    /\ IfaceConf(C13_Swap(iface)) = file

\* the file of an interface whose IPv6 MTU is the larger one
C13_Witness ==
    /\ PassDone("set_if_addr")
    /\ 1 \in Written
    /\ cb.arg.iface[1].ipv4.mtu = 1492
    /\ cb.arg.iface[1].ipv6.mtu = 1500
    /\ \E l \in KeyLines(files[NetPath(cb.arg.iface[1].name)], "MTUBytes") :
          l[2] = "MTUBytes=1500"

(* ------------------------------- C14 ---------------------------------- *)

\* the words of a line after its key
C14_Tokens(line, key) ==
    SelectSeq(Split(IF Len(line) = Len(key) THEN ""
                    ELSE SubSeq(line, Len(key) + 1, Len(line)), " "),
              LAMBDA w : w # "")

\* C14: after a set_ntp_server pass whose open succeeded, timesyncd.conf is
\* the header, the [Time] line and one NTP line whose words are the servers
\* of the list just rendered, in its order (none for an empty list); a
\* server of an earlier render that the list does not name is not in the
\* file.
C14_NtpFullReplace ==
    (PassDone("set_ntp_server") /\ trace[1].res = "ok")
        => LET lines == Lines(files[NtpPath])
               ntp == SelectSeq(lines, LAMBDA l : HasPrefix(l, "NTP"))
               words == C14_Tokens(ntp[1], "NTP =")
           IN /\ Len(ntp) = 1
              /\ HasPrefix(ntp[1], "NTP =")
              /\ words = cb.arg.server
              /\ lines = <<"# AUTOGENERATED BY cfgd v1.0", "[Time]", ntp[1]>>
              /\ \A name \in NtpNames :
                    (\E w \in 1..Len(words) : words[w] = name)
                        => \E k \in 1..Len(cb.arg.server) : cb.arg.server[k] = name

\* a render of one server over the render of two servers by the pass before
C14_Witness ==
    /\ PassDone("set_ntp_server")
    /\ trace[1].res = "ok"
    /\ NtpPath \in DOMAIN cb.files0
    /\ cb.files0[NtpPath] =
          "# AUTOGENERATED BY cfgd v1.0\n[Time]\nNTP = ntp1.example ntp2.example"
    /\ cb.arg.server = <<"ntp1.example">>
    /\ files[NtpPath] = "# AUTOGENERATED BY cfgd v1.0\n[Time]\nNTP = ntp1.example"

(* ------------------------------- C15 ---------------------------------- *)

C15_Levels == {"LOG_INFO", "LOG_DEBUG"}

C15_Other(level) == IF level = "LOG_INFO" THEN "LOG_DEBUG" ELSE "LOG_INFO"

\* a step in which the handler of the log-toggle signal ran
C15_Toggled == "SIGUSR2" \in sigpend /\ "SIGUSR2" \notin sigpend'

\* C15: the log level is always LOG_INFO or LOG_DEBUG; the handler of the
\* log-toggle signal switches it to the other level, so that a second switch
\* gives the level back, and leaves the process running, the break request,
\* the watchers, the disk and the renderer call as they are; nothing else
\* changes the level.
C15_LogToggle ==
    [][/\ logx_level \in C15_Levels
       /\ logx_level' \in C15_Levels
       /\ C15_Toggled
             => /\ proc = "running"
                /\ logx_level' = C15_Other(logx_level)
                /\ logx_level' # logx_level
                /\ C15_Other(logx_level') = logx_level
                /\ UNCHANGED <<proc, loop_done, watchers, files, cb, trace>>
       /\ logx_level' # logx_level => C15_Toggled]_vars

\* the toggle signal delivered and handled: the daemon started at LOG_INFO
\* logs at LOG_DEBUG
C15_Witness ==
    /\ proc = "running"
    /\ nev = 1
    /\ sig = "SIGUSR2"
    /\ sigpend = {}
    /\ logx_level = "LOG_DEBUG"

(* ------------------------------- C16 ---------------------------------- *)

\* C16: set_value hands no command to the shell and writes no file, whatever
\* the path and the value are, "system.hostname" included: no value reaches
\* a hostnamectl command.
C16_HostnameDisabled ==
    cb.fn = "set_value"
        => /\ trace = <<>>
           /\ Cmds(trace) = <<>>
           /\ files = cb.files0
           /\ proc = "running"

\* set_value returned from a change of system.hostname to a value that ends
\* the quoting
C16_Witness ==
    /\ PassDone("set_value")
    /\ cb.arg.path = "system.hostname"
    /\ cb.arg.str = "x'; reboot; '"

(* ------------------------------- C17 ---------------------------------- *)

\* a trace without the exit statuses of its commands
C17_Masked(t) ==
    [k \in 1..Len(t) |-> IF t[k].op = "system" THEN [t[k] EXCEPT !.res = "-"] ELSE t[k]]

\* the calls of a trace other than its commands, with their outcomes
C17_Others(t) == SelectSeq(t, LAMBDA e : e.op # "system")

C17_Failed(t) == \E k \in 1..Len(t) : t[k].op = "system" /\ t[k].res = "fail"

\* C17: the exit status of a command decides nothing in a renderer.  Two
\* passes over the same change that differ in the exit statuses of their
\* commands only make the same calls in the same order, to the end of the
\* pass: the same commands, the same files opened and closed, the same
\* bytes in the files written.  The process is running after a pass with a
\* failed command, and the next change is applied.
C17_FireAndForget ==
    /\ (C17_Failed(trace) \/ C17_Failed(last.trace)) => proc = "running"
    /\ (cb.pc = "ret" /\ last.fn = cb.fn /\ last.arg = cb.arg
           /\ C17_Others(trace) = C17_Others(last.trace))
          => /\ C17_Masked(trace) = C17_Masked(last.trace)
             /\ \A k \in 1..Len(trace) :
                   trace[k].op = "fclose"
                       => files[trace[k].what] = last.files[trace[k].what]

\* a pass of set_if_neigh whose flush failed, and the same change applied
\* again with every command succeeding
C17_Witness ==
    /\ PassDone("set_if_neigh")
    /\ last.fn = cb.fn
    /\ last.arg = cb.arg
    /\ last.trace[1].res = "fail"
    /\ ~C17_Failed(trace)
    /\ Len(trace) > 3
    /\ Len(last.trace) = Len(trace)

(* ---------------------------- C18, C19 -------------------------------- *)

\* the places of the trace where an open failed
OpenFailures(t) == {k \in 1..Len(t) : t[k].op = "fopen" /\ t[k].res = "fail"}

\* the paths the pass has written and closed
Closed(t) == {t[k].what : k \in {j \in 1..Len(t) : t[j].op = "fclose"}}

\* path is as the pass found it, or was deleted by the rm of the pass
Unwritten(path) ==
    path \in DOMAIN files
        => /\ path \in DOMAIN cb.files0
           /\ files[path] = cb.files0[path]
           /\ trace[1].res = "fail"

(* ------------------------------- C18 ---------------------------------- *)

\* C18: when the open of the file of the interface at position i fails in a
\* set_if_addr pass, the files of the interfaces before i, written in this
\* pass, are on disk with the content rendered for them, and the file of the
\* interface at i is not written: it is absent, or (the rm having failed)
\* as the pass found it.
C18_PartialFailureKeeps ==
    (cb.fn = "set_if_addr" /\ OpenFailures(trace) # {})
        => /\ trace[Len(trace)] = Ev("fopen", NetPath(cb.arg.iface[cb.i].name), "fail")
           /\ \A j \in 1..(cb.i - 1) :
                 LET path == NetPath(cb.arg.iface[j].name)
                 IN /\ path \in Closed(trace)
                    /\ path \in DOMAIN files
                    /\ files[path] = IfaceConf(cb.arg.iface[j])
                    /\ \E l \in KeyLines(files[path], "Name=") :
                          l[2] = "Name=" \o cb.arg.iface[j].name
           /\ NetPath(cb.arg.iface[cb.i].name) \notin Closed(trace)
           /\ Unwritten(NetPath(cb.arg.iface[cb.i].name))

\* the open of the second of two interfaces failed: the file of the first is
\* there, that of the second, which an earlier run had left, is gone
C18_Witness ==
    /\ PassDone("set_if_addr")
    /\ Len(cb.arg.iface) = 2
    /\ OpenFailures(trace) = {4}
    /\ NetPath("eth0") \in DOMAIN files
    /\ files[NetPath("eth0")] # "# earlier run\n"
    /\ NetPath("eth1") \in DOMAIN cb.files0
    /\ NetPath("eth1") \notin DOMAIN files

(* ------------------------------- C19 ---------------------------------- *)

\* C19: when the open of the file of the interface at position i fails in a
\* set_if_addr pass, the pass ends there: the failed open is its last call,
\* no file of an interface after i is opened or written, and the network
\* service is not reloaded; the rm of the old files came first, so that
\* the files of the interfaces from i on that it deleted stay deleted.
C19_OpenFailureEndsPass ==
    (cb.fn = "set_if_addr" /\ OpenFailures(trace) # {})
        => /\ OpenFailures(trace) = {Len(trace)}
           /\ cb.pc = "ret"
           /\ Len(trace) = 2 * cb.i
           /\ C6_Reloads(trace) = {}
           /\ Cmds(trace) = <<"rm -f /etc/systemd/network/*.network">>
           /\ trace[1].op = "system"
           /\ \A j \in (cb.i + 1)..Len(cb.arg.iface) :
                 LET path == NetPath(cb.arg.iface[j].name)
                 IN /\ \A k \in 1..Len(trace) : trace[k].what # path
                    /\ Unwritten(path)
           /\ trace[1].res = "ok"
                 => \A n \in NetworkFiles :
                       \E j \in 1..(cb.i - 1) : cb.arg.iface[j].name = n

\* the open of the first of two interfaces failed on a system configured by
\* an earlier run: no file of /etc/systemd/network is left, and no reload
\* was issued
C19_Witness ==
    /\ PassDone("set_if_addr")
    /\ Len(cb.arg.iface) = 2
    /\ OpenFailures(trace) = {2}
    /\ Len(trace) = 2
    /\ Glob(cb.files0) # {}
    /\ NetworkFiles = {}

(* ------------------------------- C20 ---------------------------------- *)

\* a step in which sig_term ran for signal w
C20_Handled(w) == w \in sigpend /\ w \notin sigpend'

\* a step in which the kernel delivered termination signal u
C20_Raised(u) == nev' = nev + 1 /\ cb' = cb /\ sig' = u

\* C20: sig_term stops the watcher of the signal it runs for and no other:
\* the other two termination signals keep their watcher, and what is
\* pending of them stays pending.  A termination signal whose watcher is
\* started, delivered after another one was handled, is queued for sig_term
\* and does not end the process.  Only sig_term stops a watcher, and never
\* that of SIGUSR1, SIGUSR2 or SIGPIPE.
C20_PerSignalStop ==
    [][/\ \A w \in TermSignals :
             C20_Handled(w)
                 => \A u \in TermSignals \ {w} :
                       /\ u \in watchers <=> u \in watchers'
                       /\ u \in sigpend <=> u \in sigpend'
       /\ \A u \in TermSignals :
             (C20_Raised(u) /\ u \in watchers)
                 => (proc' = "running" /\ u \in sigpend' /\ watchers' = watchers)
       /\ watchers' # watchers
             => \E w \in TermSignals : C20_Handled(w) /\ watchers \ watchers' = {w}
       /\ (Signals \ TermSignals) \subseteq watchers']_vars

\* sig_term has run for two of the termination signals, and the process is
\* running: the third still has its watcher
C20_Witness ==
    /\ proc = "running"
    /\ loop_done
    /\ sigpend = {}
    /\ Cardinality(TermSignals \ watchers) = 2
    /\ Cardinality(TermSignals \cap watchers) = 1

====
